---- MODULE Spec2Model ----
(***************************************************************************)
(* Model of sensorpush_python.py: the lockfile guard run at import time,   *)
(* the run loop of __main__, simulate_sensor_data and read_sensor_data     *)
(* with its retry loop.                                                    *)
(*                                                                         *)
(* SpecGuard runs NumInst processes through the lockfile guard, statement  *)
(* by statement, with each call of read_sensor_data summarised by its two  *)
(* outcomes (returns, raises).  SpecCycle runs one process, already past   *)
(* the guard, through read_sensor_data statement by statement.             *)
(* SpecFilter applies filter_sensor_data and the branch that follows it to *)
(* every record over the known keys.  SpecCsv runs a sequence of calls of  *)
(* write_to_csv over the hourly files.                                     *)
(***************************************************************************)
EXTENDS Integers, Sequences, FiniteSets, TLC

\* ---------------------------------------------------------------- bounds
NumInst == 2
MaxCycles == 2
\* The calendar hours of a run of the file Sink.
MaxHour == 2
\* The calls of write_to_csv in a run of the file Sink.
MaxWrites == 2

\* ------------------------------------------------------- program constants
retries == 5

Inst == 1..NumInst
\* The process that SpecCycle follows through read_sensor_data.
Me == 1
\* A pid of a running process that os.kill may not signal (another user's).
ForeignPid == NumInst + 1
\* pid before line 26 has assigned it.
Unread == 0 - 1

VARIABLES
    lockfile,    \* /tmp/sensor_script.lock: [kind, pid]
    pc,          \* pc[i]: the statement process i is at
    pid,         \* pid[i]: the value read from the lockfile (line 26)
    fdLinked,    \* fdLinked[i]: the file i opened for writing is still at LOCKFILE
    registered,  \* registered[i]: atexit.register(remove_lock) has run
    simulate,    \* args.simulate of process i
    local,       \* args.local of process i
    worked,      \* worked[i]: i has started discovery, a connection or a Sink call
    exitStatus,  \* exit status of process i once pc[i] = "exited"
    exitCause,   \* why process i ended
    cpc,         \* the statement of read_sensor_data that Me is at ("idle": not in a call)
    attempt,     \* attempt (line 154)
    ci,          \* index of the characteristic the for loop is at (line 161)
    results,     \* results (line 159), a sequence of <<key, value>>
    conn,        \* the number of BleakClient connections that are open
    log,         \* the GATT operations of this connection: <<op, index, succeeded>>
    discoveries, \* calls of BleakScanner.discover in this invocation
    connects,    \* BleakClient connection attempts in this invocation
    connFails,   \* connection attempts of this invocation that raised on entry
    delays,      \* asyncio.sleep(delay) calls in this invocation
    sinkCalls,   \* write_data calls in this invocation
    outcome,     \* how the last finished invocation ended
    cycles,      \* invocations of read_sensor_data started so far
    fpc,         \* the statement of lines 197-202 (237-242) that is next
    given,       \* the record given to filter_sensor_data
    cleaned,     \* cleaned_results (line 197), cleaned_data (line 237)
    sunk,        \* the records handed to write_data
    csvFiles,    \* csvFiles[h]: the rows of data/sensor_data_<date>_<h>.csv
    hour,        \* the hour of datetime.now()
    passed,      \* passed[h]: the records write_to_csv wrote in hour h
    csvCalls     \* calls of write_to_csv so far

procVars == <<lockfile, pc, pid, fdLinked, registered, simulate, local, worked,
              exitStatus, exitCause>>
cycleVars == <<cpc, attempt, ci, results, conn, log, discoveries, connects,
               connFails, delays, sinkCalls, outcome, cycles>>
filterVars == <<fpc, given, cleaned, sunk>>
csvVars == <<csvFiles, hour, passed, csvCalls>>
vars == <<lockfile, pc, pid, fdLinked, registered, simulate, local, worked,
          exitStatus, exitCause, cpc, attempt, ci, results, conn, log,
          discoveries, connects, connFails, delays, sinkCalls, outcome, cycles,
          fpc, given, cleaned, sunk, csvFiles, hour, passed, csvCalls>>

\* ------------------------------------------------------------ the lockfile
Absent == [kind |-> "absent", pid |-> 0]
\* Created or truncated by open(LOCKFILE, "w"), nothing flushed yet.
Empty == [kind |-> "empty", pid |-> 0]
\* Content that int() rejects.
Corrupt == [kind |-> "corrupt", pid |-> 0]
PidFile(p) == [kind |-> "pid", pid |-> p]

\* os.path.exists(LOCKFILE)
Exists(l) == l.kind # "absent"

\* os.kill(p, 0) succeeds: p is a process of this user that is running.
Running(p) == p \in Inst /\ pc[p] # "exited"

\* The statements after the guard, from line 251 on.
ActivePcs == {"main", "sim", "sim_sleep", "loop", "cycle", "sleep"}

\* remove_lock(): the lockfile after it.
remove_lock(l) == IF Exists(l) THEN Absent ELSE l

\* The process ends: exit handlers run (remove_lock, once registered), and
\* its variables and open files are gone.
Terminate(i, status, cause) ==
    /\ pc' = [pc EXCEPT ![i] = "exited"]
    /\ exitStatus' = [exitStatus EXCEPT ![i] = status]
    /\ exitCause' = [exitCause EXCEPT ![i] = cause]
    /\ lockfile' = IF registered[i] THEN remove_lock(lockfile) ELSE lockfile
    /\ fdLinked' = [j \in Inst |->
                      IF j = i \/ (registered[i] /\ Exists(lockfile))
                      THEN FALSE ELSE fdLinked[j]]
    /\ pid' = [pid EXCEPT ![i] = Unread]
    /\ simulate' = [simulate EXCEPT ![i] = FALSE]
    /\ local' = [local EXCEPT ![i] = FALSE]

\* ------------------------------------------------- the guard, lines 23-43
\* line 23: if os.path.exists(LOCKFILE)
CheckExists(i) ==
    /\ pc[i] = "exists"
    /\ pc' = [pc EXCEPT ![i] = IF Exists(lockfile) THEN "open_r" ELSE "open_w"]
    /\ UNCHANGED <<lockfile, pid, fdLinked, registered, simulate, local, worked,
                   exitStatus, exitCause>>
    /\ UNCHANGED cycleVars
    /\ UNCHANGED <<filterVars, csvVars>>

\* A guard without the except ValueError clause: unreadable content ends
\* the process.
ReadPid_NoValueError(i) ==
    /\ pc[i] = "open_r"
    /\ IF lockfile.kind # "pid"
       THEN Terminate(i, 1, "guard_fault")
       ELSE /\ pid' = [pid EXCEPT ![i] = lockfile.pid]
            /\ pc' = [pc EXCEPT ![i] = "probe"]
            /\ UNCHANGED <<lockfile, fdLinked, exitStatus, exitCause,
                           simulate, local>>
    /\ UNCHANGED <<registered, worked>>
    /\ UNCHANGED cycleVars
    /\ UNCHANGED <<filterVars, csvVars>>

\* lines 25-26: pid = int(f.read()); FileNotFoundError is not handled,
\* ValueError goes to line 30.
ReadPid(i) ==
    /\ pc[i] = "open_r"
    /\ IF ~Exists(lockfile)
       THEN Terminate(i, 1, "guard_fault")
       ELSE /\ IF lockfile.kind = "pid"
               THEN /\ pid' = [pid EXCEPT ![i] = lockfile.pid]
                    /\ pc' = [pc EXCEPT ![i] = "probe"]
               ELSE /\ pc' = [pc EXCEPT ![i] = "rm_corrupt"]
                    /\ UNCHANGED pid
            /\ UNCHANGED <<lockfile, fdLinked, exitStatus, exitCause,
                           simulate, local>>
    /\ UNCHANGED <<registered, worked>>
    /\ UNCHANGED cycleVars
    /\ UNCHANGED <<filterVars, csvVars>>

\* A guard that goes on to reclaim the lockfile whatever os.kill found.
ProbeNext_IgnoresLiveOwner(found) == "rm_stale"

\* What line 27 does next, given whether os.kill(pid, 0) found the process.
ProbeNext(found) == IF found THEN "exit" ELSE "rm_stale"

\* lines 27-29, 33-38: os.kill(pid, 0), then sys.exit(1) when it succeeds or
\* raises PermissionError; ProcessLookupError goes to line 35.
Probe(i) ==
    /\ pc[i] = "probe"
    /\ IF ProbeNext(Running(pid[i]) \/ pid[i] = ForeignPid) = "exit"
       THEN Terminate(i, 1, "duplicate")
       ELSE /\ pc' = [pc EXCEPT ![i] = "rm_stale"]
            /\ UNCHANGED <<lockfile, fdLinked, exitStatus, exitCause,
                           pid, simulate, local>>
    /\ UNCHANGED <<registered, worked>>
    /\ UNCHANGED cycleVars
    /\ UNCHANGED <<filterVars, csvVars>>

\* lines 32 and 35: os.remove(LOCKFILE); FileNotFoundError is not handled.
RemoveStale(i) ==
    /\ pc[i] \in {"rm_corrupt", "rm_stale"}
    /\ IF ~Exists(lockfile)
       THEN Terminate(i, 1, "guard_fault")
       ELSE /\ lockfile' = Absent
            /\ fdLinked' = [j \in Inst |-> FALSE]
            /\ pc' = [pc EXCEPT ![i] = "open_w"]
            /\ UNCHANGED <<exitStatus, exitCause, pid, simulate, local>>
    /\ UNCHANGED <<registered, worked>>
    /\ UNCHANGED cycleVars
    /\ UNCHANGED <<filterVars, csvVars>>

\* line 40: open(LOCKFILE, "w") creates the file or truncates it.
OpenWrite(i) ==
    /\ pc[i] = "open_w"
    /\ lockfile' = Empty
    /\ fdLinked' = [fdLinked EXCEPT ![i] = TRUE]
    /\ pc' = [pc EXCEPT ![i] = "write"]
    /\ UNCHANGED <<pid, registered, simulate, local, worked, exitStatus, exitCause>>
    /\ UNCHANGED cycleVars
    /\ UNCHANGED <<filterVars, csvVars>>

\* line 41 and the end of the with block: str(os.getpid()) reaches the file
\* that was opened, which is LOCKFILE unless it was removed meanwhile.
WritePid(i) ==
    /\ pc[i] = "write"
    /\ lockfile' = IF fdLinked[i] THEN PidFile(i) ELSE lockfile
    /\ pc' = [pc EXCEPT ![i] = "register"]
    /\ UNCHANGED <<pid, fdLinked, registered, simulate, local, worked,
                   exitStatus, exitCause>>
    /\ UNCHANGED cycleVars
    /\ UNCHANGED <<filterVars, csvVars>>

\* line 43: atexit.register(remove_lock)
Register(i) ==
    /\ pc[i] = "register"
    /\ registered' = [registered EXCEPT ![i] = TRUE]
    /\ pc' = [pc EXCEPT ![i] = "main"]
    /\ UNCHANGED <<lockfile, pid, fdLinked, simulate, local, worked,
                   exitStatus, exitCause>>
    /\ UNCHANGED cycleVars
    /\ UNCHANGED <<filterVars, csvVars>>

\* ------------------------------------------- __main__, lines 251-276
\* lines 252-265: parse_args, then the branch on args.simulate.
ParseArgs(i) ==
    /\ pc[i] = "main"
    /\ \E s \in BOOLEAN, l \in BOOLEAN :
        /\ simulate' = [simulate EXCEPT ![i] = s]
        /\ local' = [local EXCEPT ![i] = l]
        /\ pc' = [pc EXCEPT ![i] = IF s THEN "sim" ELSE "loop"]
    /\ UNCHANGED <<lockfile, pid, fdLinked, registered, worked, exitStatus, exitCause>>
    /\ UNCHANGED cycleVars
    /\ UNCHANGED <<filterVars, csvVars>>

\* lines 219-244: one pass of the simulation loop up to time.sleep(10); an
\* exception out of write_data is caught at line 247 and the function returns.
SimTick(i) ==
    /\ pc[i] = "sim"
    /\ worked' = [worked EXCEPT ![i] = TRUE]
    /\ \/ /\ pc' = [pc EXCEPT ![i] = "sim_sleep"]
          /\ UNCHANGED <<lockfile, fdLinked, exitStatus, exitCause,
                         pid, simulate, local>>
       \/ /\ local[i]
          /\ Terminate(i, 0, "sim_error")
    /\ UNCHANGED registered
    /\ UNCHANGED cycleVars
    /\ UNCHANGED <<filterVars, csvVars>>

\* line 244: time.sleep(10) returns.
SimWake(i) ==
    /\ pc[i] = "sim_sleep"
    /\ pc' = [pc EXCEPT ![i] = "sim"]
    /\ UNCHANGED <<lockfile, pid, fdLinked, registered, simulate, local, worked,
                   exitStatus, exitCause>>
    /\ UNCHANGED cycleVars
    /\ UNCHANGED <<filterVars, csvVars>>

\* line 270, summarised: asyncio.run(read_sensor_data(...)) is entered.
LiveCall(i) ==
    /\ pc[i] \in {"loop", "sleep"}
    /\ pc' = [pc EXCEPT ![i] = "cycle"]
    /\ worked' = [worked EXCEPT ![i] = TRUE]
    /\ UNCHANGED <<lockfile, pid, fdLinked, registered, simulate, local,
                   exitStatus, exitCause>>
    /\ UNCHANGED cycleVars
    /\ UNCHANGED <<filterVars, csvVars>>

\* lines 270-272, summarised: read_sensor_data returned; the loop sleeps.
LiveReturn(i) ==
    /\ pc[i] = "cycle"
    /\ pc' = [pc EXCEPT ![i] = "sleep"]
    /\ UNCHANGED <<lockfile, pid, fdLinked, registered, simulate, local, worked,
                   exitStatus, exitCause>>
    /\ UNCHANGED cycleVars
    /\ UNCHANGED <<filterVars, csvVars>>

\* lines 273-276: an exception out of read_sensor_data is logged as fatal,
\* the script runs off its end and the process exits with status 0.
LiveRaise(i) ==
    /\ pc[i] = "cycle"
    /\ Terminate(i, 0, "fatal")
    /\ UNCHANGED <<registered, worked>>
    /\ UNCHANGED cycleVars
    /\ UNCHANGED <<filterVars, csvVars>>

\* KeyboardInterrupt, at any statement.  Inside simulate_sensor_data it is
\* caught (line 245) and the script ends normally; elsewhere nothing handles
\* it (line 273 catches Exception only).  An open connection is released as
\* the async with block unwinds.
Interrupt(i) ==
    /\ pc[i] # "exited"
    /\ IF pc[i] \in {"sim", "sim_sleep"}
       THEN Terminate(i, 0, "normal")
       ELSE Terminate(i, 130, "interrupt")
    /\ IF i = Me /\ cpc # "idle"
       THEN /\ cpc' = "idle"
            /\ conn' = 0
            /\ outcome' = "interrupted"
       ELSE UNCHANGED <<cpc, conn, outcome>>
    /\ UNCHANGED <<registered, worked>>
    /\ UNCHANGED <<attempt, ci, results, discoveries, connects, connFails,
                   delays, sinkCalls, cycles>>
    /\ UNCHANGED log
    /\ UNCHANGED <<filterVars, csvVars>>

\* ------------------------------------------------------------- SpecGuard
\* No record is being filtered.
FilterIdle ==
    /\ fpc = "idle"
    /\ given = <<>>
    /\ cleaned = <<>>
    /\ sunk = <<>>

\* The hours that datetime.now() goes through.
Hours == 1..MaxHour

\* The data directory holds no file and write_to_csv has not been called.
CsvIdle ==
    /\ csvFiles = [h \in Hours |-> <<>>]
    /\ hour = 1
    /\ passed = [h \in Hours |-> <<>>]
    /\ csvCalls = 0

InitGuard ==
    /\ FilterIdle
    /\ CsvIdle
    /\ lockfile \in {Absent, Corrupt, PidFile(0), PidFile(ForeignPid)}
    /\ pc = [i \in Inst |-> "exists"]
    /\ pid = [i \in Inst |-> Unread]
    /\ fdLinked = [i \in Inst |-> FALSE]
    /\ registered = [i \in Inst |-> FALSE]
    /\ simulate = [i \in Inst |-> FALSE]
    /\ local = [i \in Inst |-> FALSE]
    /\ worked = [i \in Inst |-> FALSE]
    /\ exitStatus = [i \in Inst |-> 0]
    /\ exitCause = [i \in Inst |-> "none"]
    /\ cpc = "idle"
    /\ attempt = 0
    /\ ci = 1
    /\ results = <<>>
    /\ conn = 0
    /\ log = <<>>
    /\ discoveries = 0
    /\ connects = 0
    /\ connFails = 0
    /\ delays = 0
    /\ sinkCalls = 0
    /\ outcome = "none"
    /\ cycles = 0

NextGuard ==
    \E i \in Inst :
        \/ CheckExists(i)
        \/ ReadPid(i)
        \/ Probe(i)
        \/ RemoveStale(i)
        \/ OpenWrite(i)
        \/ WritePid(i)
        \/ Register(i)
        \/ ParseArgs(i)
        \/ SimTick(i)
        \/ SimWake(i)
        \/ LiveCall(i)
        \/ LiveReturn(i)
        \/ LiveRaise(i)
        \/ Interrupt(i)

SpecGuard == InitGuard /\ [][NextGuard]_vars

\* ------------------------------------- read_sensor_data, lines 145-213
\* CHARACTERISTICS.values(), in declaration order.
CHARACTERISTICS == <<"Temperature (C)", "Relative Humidity (%)",
                     "Barometric Pressure (Pa)", "Battery Voltage (mV)">>

\* lines 172-187: the kind of value the decode of characteristic c produces.
Decode(c) == IF c = Len(CHARACTERISTICS) THEN "str" ELSE "float"

\* line 62: v not in (None, "", "NaN")
Valid(kv) == kv[2] \notin {"None", "", "NaN"}

\* A filter that keeps every field.
filter_sensor_data_KeepsAll(data) == data

\* A filter that drops one invalid field, the first, on each application.
filter_sensor_data_DropsFirst(data) ==
    LET bad == {k \in 1..Len(data) : ~Valid(data[k])}
    IN  IF bad = {}
        THEN data
        ELSE LET m == CHOOSE k \in bad : \A j \in bad : k <= j
             IN  SubSeq(data, 1, m - 1) \o SubSeq(data, m + 1, Len(data))

\* lines 60-62: the dict comprehension keeps insertion order.
filter_sensor_data(data) == SelectSeq(data, Valid)

\* line 155: while attempt < retries
LoopContinues(a) == a < retries
\* A retry loop that sleeps after the last attempt too.
SleepsBeforeRetry_Always(a) == TRUE
\* A retry loop that never sleeps between attempts.
SleepsBeforeRetry_Never(a) == FALSE
\* line 209: if attempt < retries (sleep before the next attempt)
SleepsBeforeRetry(a) == a < retries

\* A retry loop that wraps the discovery of line 147 as well.
RetryTarget_Rediscovers == "find"
\* lines 155-157: the statement a further attempt starts at.
RetryTarget == "connect"

ProcUnchanged == UNCHANGED <<lockfile, pc, pid, fdLinked, registered, simulate,
                             local, worked, exitStatus, exitCause>>

\* line 270: asyncio.run(read_sensor_data(sensor_name, args)) is entered.
CallReadSensorData ==
    /\ pc[Me] \in {"loop", "sleep"}
    /\ cpc = "idle"
    /\ cycles < MaxCycles
    /\ pc' = [pc EXCEPT ![Me] = "cycle"]
    /\ worked' = [worked EXCEPT ![Me] = TRUE]
    /\ cpc' = "find"
    /\ cycles' = cycles + 1
    /\ attempt' = 0
    /\ ci' = 1
    /\ results' = <<>>
    /\ discoveries' = 0
    /\ connects' = 0
    /\ connFails' = 0
    /\ delays' = 0
    /\ sinkCalls' = 0
    /\ outcome' = "running"
    /\ log' = <<>>
    /\ UNCHANGED <<lockfile, pid, fdLinked, registered, simulate, local,
                   exitStatus, exitCause, conn>>
    /\ UNCHANGED <<filterVars, csvVars>>

\* A cycle that goes on to connect although no device was found.
NotFoundNext_Connects == "connect"
\* lines 148-150: if not sensor_device: return
NotFoundNext == "return"

\* lines 147-154 with find_sensor (65-77): a device is found, or none is
\* (return at line 150), or BleakScanner.discover raises, which nothing in
\* read_sensor_data handles: lines 273-276 log it and the script ends.
FindSensor ==
    /\ cpc = "find"
    /\ discoveries' = discoveries + 1
    /\ \/ /\ cpc' = "connect"
          /\ attempt' = 0
          /\ UNCHANGED outcome
          /\ ProcUnchanged
       \/ /\ cpc' = NotFoundNext
          /\ outcome' = "notfound"
          /\ UNCHANGED attempt
          /\ ProcUnchanged
       \/ /\ cpc' = "idle"
          /\ outcome' = "raised"
          /\ Terminate(Me, 0, "fatal")
          /\ UNCHANGED <<attempt, registered, worked>>
    /\ UNCHANGED <<ci, results, conn, connects, connFails, delays, sinkCalls, cycles>>
    /\ UNCHANGED log
    /\ UNCHANGED <<filterVars, csvVars>>

\* lines 155-159: the loop test, then async with BleakClient(...) is entered:
\* the connection opens, or the attempt raises.
Connect ==
    /\ cpc = "connect"
    /\ LoopContinues(attempt)
    /\ connects' = connects + 1
    /\ \/ /\ conn' = conn + 1
          /\ results' = <<>>
          /\ log' = <<>>
          /\ ci' = 1
          /\ cpc' = "trigger"
          /\ UNCHANGED connFails
       \/ /\ connFails' = connFails + 1
          /\ cpc' = "except"
          /\ UNCHANGED <<conn, results, log, ci>>
    /\ UNCHANGED <<attempt, discoveries, delays, sinkCalls, outcome, cycles>>
    /\ ProcUnchanged
    /\ UNCHANGED <<filterVars, csvVars>>

\* An async with block that leaves the connection open.
Disconnect_Leaks(c) == c
\* line 157: leaving the async with block disconnects the client.
Disconnect(c) == c - 1

\* The for loop of line 161 moves on: the next characteristic, or line 194.
NextChar(c) == IF c < Len(CHARACTERISTICS) THEN "trigger" ELSE "assemble"

\* A loop that reads the characteristic although its trigger write failed.
OnTriggerFailure_ReadsAnyway(c) == "read"
\* lines 191-192 after line 166 raised: logged, on to the next characteristic.
OnTriggerFailure(c) == NextChar(c)

\* A loop whose first failed read ends the reading of this connection.
OnReadFailure_Aborts(c) == "assemble"
\* lines 191-192 after lines 169-189 raised: logged, on to the next
\* characteristic.
OnReadFailure(c) == NextChar(c)

\* line 166: write_gatt_char; a failure is caught at line 191.
Trigger ==
    /\ cpc = "trigger"
    /\ \/ /\ cpc' = "read"
          /\ log' = Append(log, <<"trigger", ci, TRUE>>)
          /\ UNCHANGED ci
       \/ /\ cpc' = OnTriggerFailure(ci)
          /\ log' = Append(log, <<"trigger", ci, FALSE>>)
          /\ ci' = IF cpc' = "trigger" THEN ci + 1 ELSE ci
    /\ UNCHANGED <<attempt, results, conn, discoveries, connects, connFails,
                   delays, sinkCalls, outcome, cycles>>
    /\ ProcUnchanged
    /\ UNCHANGED <<filterVars, csvVars>>

\* lines 169-189: read_gatt_char, decode, results[description] = value; a
\* failure is caught at line 191.
ReadChar ==
    /\ cpc = "read"
    /\ \/ /\ results' = Append(results, <<CHARACTERISTICS[ci], Decode(ci)>>)
          /\ log' = Append(log, <<"read", ci, TRUE>>)
          /\ cpc' = NextChar(ci)
       \/ /\ UNCHANGED results
          /\ log' = Append(log, <<"read", ci, FALSE>>)
          /\ cpc' = OnReadFailure(ci)
    /\ ci' = IF cpc' = "trigger" THEN ci + 1 ELSE ci
    /\ UNCHANGED <<attempt, conn, discoveries, connects, connFails,
                   delays, sinkCalls, outcome, cycles>>
    /\ ProcUnchanged
    /\ UNCHANGED <<filterVars, csvVars>>

\* lines 199 and 239: if cleaned_results / if cleaned_data
ShouldWrite(cleaned_results) == cleaned_results # <<>>

\* lines 194-202: device_name is added, the record is filtered, and the
\* branch on cleaned_results is taken.
Assemble ==
    /\ cpc = "assemble"
    /\ results' = Append(results, <<"device_name", "str">>)
    /\ cpc' = IF ShouldWrite(filter_sensor_data(results')) THEN "write" ELSE "release"
    /\ UNCHANGED <<attempt, ci, conn, discoveries, connects, connFails,
                   delays, sinkCalls, outcome, cycles>>
    /\ ProcUnchanged
    /\ UNCHANGED log
    /\ UNCHANGED <<filterVars, csvVars>>

\* line 200: write_data(cleaned_results, args).  write_to_supabase and
\* write_to_csv catch their own failures (lines 101, 141); get_csv_filename
\* (line 127, os.mkdir at 108) is called outside the try of write_to_csv, so
\* with --local the call can raise, the async with block is left and the
\* exception reaches line 206.
WriteData ==
    /\ cpc = "write"
    /\ sinkCalls' = sinkCalls + 1
    /\ \/ /\ cpc' = "release"
          /\ UNCHANGED conn
       \/ /\ local[Me]
          /\ cpc' = "except"
          /\ conn' = Disconnect(conn)
    /\ UNCHANGED <<attempt, ci, results, discoveries, connects, connFails,
                   delays, outcome, cycles>>
    /\ ProcUnchanged
    /\ UNCHANGED log
    /\ UNCHANGED <<filterVars, csvVars>>

\* line 204: return leaves the async with block, which disconnects; an
\* exception raised by the disconnect reaches line 206.
Release ==
    /\ cpc = "release"
    /\ conn' = Disconnect(conn)
    /\ \/ /\ cpc' = "return"
          /\ outcome' = IF sinkCalls > 0 /\ filter_sensor_data(results) # <<>>
                        THEN "written" ELSE "skipped"
       \/ /\ cpc' = "except"
          /\ UNCHANGED outcome
    /\ UNCHANGED <<attempt, ci, results, discoveries, connects, connFails,
                   delays, sinkCalls, cycles>>
    /\ ProcUnchanged
    /\ UNCHANGED log
    /\ UNCHANGED <<filterVars, csvVars>>

\* lines 206-213: attempt += 1, then asyncio.sleep(delay) is started or the
\* cycle is given up; the while test of line 155 then ends the function.
Except ==
    /\ cpc = "except"
    /\ attempt' = attempt + 1
    /\ IF SleepsBeforeRetry(attempt')
       THEN /\ delays' = delays + 1
            /\ cpc' = "retry_sleep"
            /\ UNCHANGED outcome
       ELSE /\ UNCHANGED delays
            /\ cpc' = IF LoopContinues(attempt') THEN RetryTarget ELSE "return"
            /\ outcome' = IF LoopContinues(attempt') THEN outcome ELSE "exhausted"
    /\ UNCHANGED <<ci, results, conn, discoveries, connects, connFails,
                   sinkCalls, cycles>>
    /\ ProcUnchanged
    /\ UNCHANGED log
    /\ UNCHANGED <<filterVars, csvVars>>

\* line 211: asyncio.sleep(delay) returns; back to the while test.
RetryWake ==
    /\ cpc = "retry_sleep"
    /\ cpc' = IF LoopContinues(attempt) THEN RetryTarget ELSE "return"
    /\ outcome' = IF LoopContinues(attempt) THEN outcome ELSE "exhausted"
    /\ UNCHANGED <<attempt, ci, results, conn, discoveries, connects, connFails,
                   delays, sinkCalls, cycles>>
    /\ ProcUnchanged
    /\ UNCHANGED log
    /\ UNCHANGED <<filterVars, csvVars>>

\* lines 270-272: read_sensor_data returned; the loop logs and sleeps.
Return ==
    /\ cpc = "return"
    /\ cpc' = "idle"
    /\ pc' = [pc EXCEPT ![Me] = "sleep"]
    /\ UNCHANGED <<lockfile, pid, fdLinked, registered, simulate, local, worked,
                   exitStatus, exitCause>>
    /\ UNCHANGED <<attempt, ci, results, conn, discoveries, connects, connFails,
                   delays, sinkCalls, outcome, cycles>>
    /\ UNCHANGED log
    /\ UNCHANGED <<filterVars, csvVars>>

\* ------------------------------------------------------------- SpecCycle
\* Me has passed the guard and owns the lockfile; every other process was
\* started after it and left at line 29.
CycleStart ==
    /\ lockfile = PidFile(Me)
    /\ pc = [i \in Inst |-> IF i = Me THEN "main" ELSE "exited"]
    /\ pid = [i \in Inst |-> Unread]
    /\ fdLinked = [i \in Inst |-> i = Me]
    /\ registered = [i \in Inst |-> i = Me]
    /\ simulate = [i \in Inst |-> FALSE]
    /\ local = [i \in Inst |-> FALSE]
    /\ worked = [i \in Inst |-> FALSE]
    /\ exitStatus = [i \in Inst |-> IF i = Me THEN 0 ELSE 1]
    /\ exitCause = [i \in Inst |-> IF i = Me THEN "none" ELSE "duplicate"]
    /\ cpc = "idle"
    /\ attempt = 0
    /\ ci = 1
    /\ results = <<>>
    /\ conn = 0
    /\ log = <<>>
    /\ discoveries = 0
    /\ connects = 0
    /\ connFails = 0
    /\ delays = 0
    /\ sinkCalls = 0
    /\ outcome = "none"
    /\ cycles = 0

InitCycle ==
    /\ CycleStart
    /\ FilterIdle
    /\ CsvIdle

NextCycle ==
    \/ ParseArgs(Me)
    \/ SimTick(Me)
    \/ SimWake(Me)
    \/ CallReadSensorData
    \/ FindSensor
    \/ Connect
    \/ Trigger
    \/ ReadChar
    \/ Assemble
    \/ WriteData
    \/ Release
    \/ Except
    \/ RetryWake
    \/ Return
    \/ Interrupt(Me)

SpecCycle == InitCycle /\ [][NextCycle]_vars

\* ------------------------------- filtering and the branch, lines 197-202
\* The keys that a record can hold, in the order of insertion (lines 161, 194).
FIELDS == CHARACTERISTICS \o <<"device_name">>

\* The values of a field: the three that the filter names, and the decoded
\* ones.
RawValues == {"None", "", "NaN", "float", "str"}

\* The key is not in the record.
NoField == "absent"

IsPresent(kv) == kv[2] # NoField

\* The record that holds f[k] under FIELDS[k] for every key that is present.
RecordFrom(f) ==
    SelectSeq([k \in 1..Len(FIELDS) |-> <<FIELDS[k], f[k]>>], IsPresent)

\* line 197 (237): cleaned_results = filter_sensor_data(results), and the
\* test of line 199 (239).
FilterRecord ==
    /\ fpc = "filter"
    /\ cleaned' = filter_sensor_data(given)
    /\ fpc' = IF ShouldWrite(cleaned') THEN "write" ELSE "skip"
    /\ UNCHANGED <<given, sunk>>
    /\ UNCHANGED <<procVars, cycleVars, csvVars>>

\* line 200 (240): write_data(cleaned_results, args)
HandToSink ==
    /\ fpc = "write"
    /\ sunk' = Append(sunk, cleaned)
    /\ fpc' = "done"
    /\ UNCHANGED <<given, cleaned>>
    /\ UNCHANGED <<procVars, cycleVars, csvVars>>

\* lines 201-202 (241-242): the warning; nothing is written.
SkipWrite ==
    /\ fpc = "skip"
    /\ fpc' = "done"
    /\ UNCHANGED <<given, cleaned, sunk>>
    /\ UNCHANGED <<procVars, cycleVars, csvVars>>

\* Any record of the known keys, with any values, is about to be filtered.
InitFilter ==
    /\ CycleStart
    /\ CsvIdle
    /\ fpc = "filter"
    /\ \E f \in [1..Len(FIELDS) -> RawValues \cup {NoField}] : given = RecordFrom(f)
    /\ cleaned = <<>>
    /\ sunk = <<>>

NextFilter ==
    \/ FilterRecord
    \/ HandToSink
    \/ SkipWrite

SpecFilter == InitFilter /\ [][NextFilter]_vars

\* ------------------------------------------ write_to_csv, lines 104-142
\* The type of the value that is stored under key (lines 172-187, 194).
TypeOfKey(key) == IF key \in {FIELDS[4], FIELDS[5]} THEN "str" ELSE "float"

\* The value of field k in the record of call n: its type and its text.
Reading(k, n) ==
    [type |-> TypeOfKey(FIELDS[k]), repr |-> ToString(k) \o "." \o ToString(n)]

\* The record of call n that holds the fields of the set A, in the order of
\* FIELDS.
CsvRecord(A, n) ==
    LET In(k) == k \in A
        idx == SelectSeq([k \in 1..Len(FIELDS) |-> k], In)
    IN  [j \in 1..Len(idx) |-> <<FIELDS[idx[j]], Reading(idx[j], n)>>]

\* The records that reach write_to_csv: device_name (line 194) and any of the
\* four characteristics.
FieldSets == {A \cup {Len(FIELDS)} : A \in SUBSET (1..Len(CHARACTERISTICS))}

\* csv.writer writes the text of a value; its type is not written.
Format(v) == v.repr

\* Reading a cell back as the value of the column named key.
Parse(key, text) == [type |-> TypeOfKey(key), repr |-> text]

\* line 140: datetime.now().isoformat()
IsoFormat(h) == "T" \o ToString(h)

\* line 128: os.path.isfile(filename)
isfile(f) == f # <<>>

\* A Sink that writes the header on every call.
HeaderNeeded_Always(file_exists) == TRUE
\* line 135: if not file_exists
HeaderNeeded(file_exists) == ~file_exists

\* line 136: ["Timestamp"] + list(data.keys())
HeaderRow(d) == <<"Timestamp">> \o [k \in 1..Len(d) |-> d[k][1]]

\* line 140: [datetime.now().isoformat()] + list(data.values())
DataRow(d, h) == <<IsoFormat(h)>> \o [k \in 1..Len(d) |-> Format(d[k][2])]

\* lines 125-142: one call of write_to_csv; when open raises, the except
\* clause of line 141 logs and the file is as it was.
WriteToCsv ==
    /\ csvCalls < MaxWrites
    /\ csvCalls' = csvCalls + 1
    /\ \E A \in FieldSets, opened \in BOOLEAN :
          LET d == CsvRecord(A, csvCalls')
              f == csvFiles[hour]
              file_exists == isfile(f)
              header == IF HeaderNeeded(file_exists) THEN <<HeaderRow(d)>> ELSE <<>>
          IN  IF opened
              THEN /\ csvFiles' = [csvFiles EXCEPT ![hour] = f \o header \o <<DataRow(d, hour)>>]
                   /\ passed' = [passed EXCEPT ![hour] = Append(@, d)]
              ELSE UNCHANGED <<csvFiles, passed>>
    /\ UNCHANGED hour
    /\ UNCHANGED <<procVars, cycleVars, filterVars>>

\* line 111: datetime.now() has moved into the next hour.
NextHour ==
    /\ hour < MaxHour
    /\ hour' = hour + 1
    /\ UNCHANGED <<csvFiles, passed, csvCalls>>
    /\ UNCHANGED <<procVars, cycleVars, filterVars>>

InitCsv ==
    /\ CycleStart
    /\ FilterIdle
    /\ CsvIdle

NextCsv ==
    \/ WriteToCsv
    \/ NextHour

SpecCsv == InitCsv /\ [][NextCsv]_vars

\* ================================================== the lockfile guard
\* The lockfile holds the pid of a running process.
HoldsLiveOwner(l) == l.kind = "pid" /\ (Running(l.pid) \/ l.pid = ForeignPid)
\* The lockfile holds the pid of no process, or content that is no pid.
Reclaimable(l) == Exists(l) /\ ~HoldsLiveOwner(l)
\* Process i takes a step of its own program (it is not interrupted).
Steps(i) == pc'[i] # pc[i] /\ exitCause'[i] # "interrupt"

\* C1: never are two processes both past the guard and active at once.
C1_MutualExclusion ==
    \A i \in Inst, j \in Inst :
        i # j => ~(pc[i] \in ActivePcs /\ pc[j] \in ActivePcs)

\* C2: a process that runs the guard's statements against a lockfile holding
\* the pid of a running process goes from the existence test to the read, from
\* the read to the probe of that pid, and from the probe out of the process
\* with status 1, leaving the lockfile as it was; a process that left as a
\* duplicate has status 1, never registered remove_lock and never started
\* discovery, a connection or a Sink call.
C2_LiveOwnerExits ==
    /\ [][\A i \in Inst :
            /\ (pc[i] = "exists" /\ HoldsLiveOwner(lockfile) /\ Steps(i))
                  => (pc'[i] = "open_r" /\ lockfile' = lockfile)
            /\ (pc[i] = "open_r" /\ HoldsLiveOwner(lockfile) /\ Steps(i))
                  => (pc'[i] = "probe" /\ pid'[i] = lockfile.pid
                      /\ lockfile' = lockfile)
            /\ (pc[i] = "probe" /\ HoldsLiveOwner(PidFile(pid[i])) /\ Steps(i))
                  => (pc'[i] = "exited" /\ exitStatus'[i] = 1
                      /\ exitCause'[i] = "duplicate" /\ lockfile' = lockfile)
         ]_vars
    /\ [](\A i \in Inst :
            exitCause[i] = "duplicate"
               => (pc[i] = "exited" /\ exitStatus[i] = 1 /\ ~worked[i]
                   /\ ~registered[i] /\ lockfile # PidFile(i)))

\* A second process left as a duplicate while the owner is active and the
\* lockfile still holds the owner's pid.
C2_Witness ==
    \E i \in Inst, j \in Inst :
        /\ i # j
        /\ exitCause[i] = "duplicate" /\ exitStatus[i] = 1
        /\ pc[j] \in ActivePcs /\ worked[j]
        /\ lockfile = PidFile(j)

\* C3: a process that runs the guard's statements against a lockfile that is
\* stale or holds no pid reclaims it: it goes on to remove the file (through
\* the probe when the content is a dead pid), removes it, creates it anew,
\* writes its own pid into the file it created and passes the guard with the
\* lockfile holding its own pid.
C3_StaleReclaimed ==
    [][\A i \in Inst :
        /\ (pc[i] = "exists" /\ Reclaimable(lockfile) /\ Steps(i))
              => pc'[i] = "open_r"
        /\ (pc[i] = "open_r" /\ Reclaimable(lockfile) /\ Steps(i))
              => IF lockfile.kind = "pid"
                 THEN pc'[i] = "probe" /\ pid'[i] = lockfile.pid
                 ELSE pc'[i] = "rm_corrupt"
        /\ (pc[i] = "probe" /\ ~HoldsLiveOwner(PidFile(pid[i])) /\ Steps(i))
              => pc'[i] = "rm_stale"
        /\ (pc[i] \in {"rm_corrupt", "rm_stale"} /\ Reclaimable(lockfile) /\ Steps(i))
              => (pc'[i] = "open_w" /\ lockfile' = Absent)
        /\ (pc[i] = "open_w" /\ Steps(i))
              => (pc'[i] = "write" /\ Exists(lockfile') /\ fdLinked'[i])
        /\ (pc[i] = "write" /\ fdLinked[i] /\ Steps(i))
              => (pc'[i] = "register" /\ lockfile' = PidFile(i))
        /\ (pc[i] = "register" /\ Steps(i))
              => (pc'[i] = "main" /\ lockfile' = lockfile /\ registered'[i])
      ]_vars

\* A process that read a dead pid from the lockfile is past the guard and
\* the lockfile holds its own pid.
C3_Witness ==
    \E i \in Inst :
        /\ pc[i] \in ActivePcs
        /\ pid[i] \notin Inst /\ pid[i] # ForeignPid /\ pid[i] # Unread
        /\ lockfile = PidFile(i)

\* C4: when a process whose pid is in the lockfile terminates, the lockfile
\* is absent afterwards.
C4_LockRemovedOnExit ==
    [][\A i \in Inst :
        (pc[i] # "exited" /\ pc'[i] = "exited" /\ lockfile = PidFile(i))
            => lockfile' = Absent
      ]_vars

\* ==================================================== read_sensor_data
\* Some characteristic made it into results.
HasAttribute(r) == \E k \in 1..Len(r) : r[k][1] # "device_name"

\* C5: an invocation that gave up made exactly retries attempts and slept
\* exactly retries - 1 delays, and returned to the run loop without raising;
\* when every attempt failed to connect, it made no Sink call.
C5_RetryExhaustion ==
    outcome = "exhausted"
        => /\ attempt = retries
           /\ connects = retries
           /\ delays = retries - 1
           /\ connFails = connects => sinkCalls = 0
           /\ cpc \in {"return", "idle"}
           /\ exitCause[Me] \notin {"fatal", "duplicate", "guard_fault"}
           /\ exitCause[Me] = "none" => pc[Me] \in {"cycle", "sleep"}

\* Every attempt failed to connect, the cycle was given up and the run loop
\* is asleep again.
C5_Witness ==
    /\ outcome = "exhausted"
    /\ connFails = retries
    /\ sinkCalls = 0
    /\ pc[Me] = "sleep"

\* C6: an invocation that ended by a successful attempt after attempt failed
\* ones made exactly attempt + 1 connection attempts, none of them after the
\* successful one, slept exactly attempt delays, and stayed within retries
\* attempts; when the failures were failures to connect and the record was
\* written, the Sink was called once.
C6_RetryThenSuccess ==
    outcome \in {"written", "skipped"}
        => /\ connects = attempt + 1
           /\ delays = attempt
           /\ connects <= retries
           /\ (outcome = "written" /\ connFails = attempt) => sinkCalls = 1

\* The connection failed retries - 1 times and the last attempt wrote the
\* record.
C6_Witness ==
    /\ outcome = "written"
    /\ connFails = retries - 1
    /\ connects = retries
    /\ delays = retries - 1
    /\ cpc = "idle"

C8_LoopSurvivesCycle ==
    [][(pc[Me] = "cycle" /\ pc'[Me] # "cycle")
          => (pc'[Me] = "sleep" \/ exitCause'[Me] = "interrupt")
      ]_vars

\* C9: a Sink call is made, and a cycle ends as written, only with some
\* characteristic in the record.
C9_AllInvalidSkips ==
    (cpc = "write" \/ outcome = "written") => HasAttribute(results)

\* C10: one invocation calls the Sink at most once.
C10_AtMostOneSinkCall ==
    sinkCalls <= 1

\* C11: a cycle whose discovery found no matching device ends with one
\* discovery made and no connection attempt, no retry, no retry delay and no
\* Sink call; read_sensor_data returns and the run loop sleeps.
C11_NotFoundEndsCycle ==
    outcome = "notfound"
        => /\ discoveries = 1
           /\ connects = 0 /\ connFails = 0 /\ conn = 0
           /\ attempt = 0
           /\ delays = 0
           /\ sinkCalls = 0
           /\ cpc \in {"return", "idle"}

\* A cycle ended as not found and the run loop is asleep.
C11_Witness ==
    /\ outcome = "notfound"
    /\ cpc = "idle"
    /\ pc[Me] = "sleep"

\* C12: a process ended by an unhandled error of the run loop exits with a
\* status other than 0.
C12_FatalExitsNonZero ==
    \A i \in Inst : exitCause[i] = "fatal" => exitStatus[i] # 0

IsTrigger(e) == e[1] = "trigger"

IsGoodRead(e) == e[1] = "read" /\ e[3]

\* The record that the GATT operations of l leave behind: one field for every
\* read that succeeded, in the order of the reads.
RecordOf(l) ==
    LET good == SelectSeq(l, IsGoodRead)
    IN  [k \in 1..Len(good) |-> <<CHARACTERISTICS[good[k][2]], Decode(good[k][2])>>]

Logged(e) == \E k \in 1..Len(log) : log[k] = e

\* C14: while connected, the characteristics are attempted in declaration
\* order, whatever the outcome of the earlier ones, and all four have been
\* attempted when the loop ends; the record holds exactly the characteristics
\* whose trigger write and read succeeded, in that order.
C14_PerAttributeIsolation ==
    LET attempted == SelectSeq(log, IsTrigger)
        n == Len(CHARACTERISTICS)
    IN  /\ cpc \in {"trigger", "read", "assemble", "write", "release"}
            => \A k \in 1..Len(attempted) : attempted[k][2] = k
        /\ cpc \in {"trigger", "read"} => Len(attempted) \in {ci - 1, ci}
        /\ cpc \in {"trigger", "read", "assemble"} => results = RecordOf(log)
        /\ cpc \in {"assemble", "write", "release"} => Len(attempted) = n
        /\ cpc \in {"write", "release"}
            => results = RecordOf(log) \o <<<<"device_name", "str">>>>
        /\ cpc \in {"assemble", "write", "release"}
            => \A c \in 1..n :
                  (Logged(<<"trigger", c, TRUE>>) /\ Logged(<<"read", c, TRUE>>))
                      <=> \E k \in 1..Len(results) : results[k][1] = CHARACTERISTICS[c]

\* The first trigger write and the second read failed; the third and fourth
\* characteristics were read and are the record.
C14_Witness ==
    /\ cpc = "assemble"
    /\ Logged(<<"trigger", 1, FALSE>>)
    /\ Logged(<<"read", 2, FALSE>>)
    /\ Logged(<<"read", 3, TRUE>>)
    /\ Logged(<<"read", 4, TRUE>>)
    /\ Len(results) = 2

\* C15: every read of a characteristic directly follows a successful trigger
\* write to the same characteristic in the same connection; a characteristic
\* whose trigger write failed is not read and is not in the record.
C15_TriggerBeforeRead ==
    /\ \A k \in 1..Len(log) :
          log[k][1] = "read"
              => k > 1 /\ log[k - 1] = <<"trigger", log[k][2], TRUE>>
    /\ cpc = "read"
          => Len(log) > 0 /\ log[Len(log)] = <<"trigger", ci, TRUE>>
    /\ cpc \in {"trigger", "read", "assemble", "write", "release"}
          => \A c \in 1..Len(CHARACTERISTICS) :
                Logged(<<"trigger", c, FALSE>>)
                    => /\ ~ \E k \in 1..Len(log) : log[k][1] = "read" /\ log[k][2] = c
                       /\ ~ \E k \in 1..Len(results) : results[k][1] = CHARACTERISTICS[c]

\* The trigger write to the third characteristic failed; the fourth was
\* triggered and is about to be read.
C15_Witness ==
    /\ cpc = "read"
    /\ ci = 4
    /\ Logged(<<"trigger", 3, FALSE>>)
    /\ Logged(<<"read", 1, TRUE>>)

\* C16: at most one connection is open, and none is open before the
\* connection of an attempt is made, in the except clause, during the retry
\* delay, after read_sensor_data returned, during the sleep of the run loop and
\* after the process ended.
C16_ConnectionScope ==
    /\ conn \in {0, 1}
    /\ cpc \in {"idle", "find", "connect", "except", "retry_sleep", "return"}
          => conn = 0
    /\ pc[Me] \in {"sleep", "exited"} => conn = 0
    /\ cpc \in {"trigger", "read", "assemble", "write", "release"} => conn = 1

\* An attempt that had connected ended by an exception, and the retry delay
\* runs with no connection open.
C16_Witness ==
    /\ cpc = "retry_sleep"
    /\ connects = 1
    /\ connFails = 0
    /\ conn = 0

\* C19: the exit of an instance never removes a lockfile that holds the pid
\* of another instance that is still running.
C19_ExitKeepsForeignRecord ==
    [][\A i, j \in Inst :
          (/\ i # j
           /\ pc[i] # "exited" /\ pc'[i] = "exited"
           /\ lockfile = PidFile(j)
           /\ Running(j))
              => lockfile' = lockfile
      ]_vars

HasValue(r, v) == \E k \in 1..Len(r) : r[k][2] = v

\* C18: every record handed to write_data, and the record about to be, has
\* at least one field and no field whose value is None, "" or "NaN".
C18_SunkRecordsValid ==
    /\ \A n \in 1..Len(sunk) :
          /\ sunk[n] # <<>>
          /\ \A k \in 1..Len(sunk[n]) : sunk[n][k][2] \notin {"None", "", "NaN"}
    /\ fpc = "write"
          => /\ cleaned # <<>>
             /\ \A k \in 1..Len(cleaned) : cleaned[k][2] \notin {"None", "", "NaN"}
    /\ (fpc = "done" /\ sunk = <<>>) => \A k \in 1..Len(given) : ~Valid(given[k])

\* A record that held None, "" and "NaN" was handed on with its two other
\* fields.
C18_Witness ==
    /\ fpc = "done"
    /\ HasValue(given, "None") /\ HasValue(given, "") /\ HasValue(given, "NaN")
    /\ Len(sunk) = 1
    /\ Len(sunk[1]) = 2

\* The position of key in the record d.
IndexOf(d, key) == CHOOSE k \in 1..Len(d) : d[k][1] = key

\* c holds fields of d only, with their values, in the order they have in d.
IsSubMapping(c, d) ==
    /\ \A k \in 1..Len(c) : \E j \in 1..Len(d) : d[j] = c[k]
    /\ \A k, l \in 1..Len(c) :
          k < l => IndexOf(d, c[k][1]) < IndexOf(d, c[l][1])

\* C20: filtering a filtered record changes nothing, and the filtered record
\* holds fields of the given record only, with their values and in their
\* order.
C20_FilterIdempotent ==
    /\ filter_sensor_data(filter_sensor_data(given)) = filter_sensor_data(given)
    /\ IsSubMapping(filter_sensor_data(given), given)
    /\ fpc # "filter"
          => /\ filter_sensor_data(cleaned) = cleaned
             /\ IsSubMapping(cleaned, given)

\* A record of five fields, of which the first and the last two were
\* invalid, was filtered to its second and third.
C20_Witness ==
    /\ fpc = "done"
    /\ Len(given) = 5
    /\ ~Valid(given[1]) /\ ~Valid(given[4]) /\ ~Valid(given[5])
    /\ cleaned = <<given[2], given[3]>>

Min(a, b) == IF a < b THEN a ELSE b

\* The record that a data row is when its cells are read under the column
\* names of the header, the timestamp column left out.
Reparse(header, row) ==
    [k \in 1..(Min(Len(header), Len(row)) - 1)
        |-> <<header[k + 1], Parse(header[k + 1], row[k + 1])>>]

\* C13: every data row of an hourly file, read back against the header of
\* the file, is the record that was passed to the call that wrote it.
C13_CsvRoundTrip ==
    \A h \in Hours :
        \A n \in 1..Len(passed[h]) :
            /\ Len(csvFiles[h]) > n
            /\ Reparse(csvFiles[h][1], csvFiles[h][n + 1]) = passed[h][n]

IsHeader(row) == row[1] = "Timestamp"

IsPrefix(s, t) == Len(s) <= Len(t) /\ SubSeq(t, 1, Len(s)) = s

\* C17: a call of write_to_csv keeps the rows of every file as a prefix and
\* adds one data row to the file of the hour, after a header row exactly when
\* the file did not exist; a call whose open fails adds nothing. So a file
\* that exists starts with its only header row and has one data row for each
\* call that wrote to it.
C17_CsvAppendOnly ==
    /\ [][\A h \in Hours :
            LET f == csvFiles[h]
                g == csvFiles'[h]
            IN  /\ IsPrefix(f, g)
                /\ passed'[h] # passed[h]
                      => /\ h = hour
                         /\ Len(passed'[h]) = Len(passed[h]) + 1
                         /\ ~IsHeader(g[Len(g)])
                         /\ Len(g) = Len(f) + (IF isfile(f) THEN 1 ELSE 2)
                         /\ ~isfile(f) => IsHeader(g[1])
                /\ passed'[h] = passed[h] => g = f
         ]_vars
    /\ [](\A h \in Hours :
            LET f == csvFiles[h]
            IN  /\ isfile(f) <=> passed[h] # <<>>
                /\ isfile(f)
                      => /\ IsHeader(f[1])
                         /\ Len(f) = Len(passed[h]) + 1
                         /\ \A k \in 2..Len(f) : ~IsHeader(f[k]))

\* Two calls in the same hour left a file of one header row and two data
\* rows.
C17_Witness ==
    /\ csvCalls = 2
    /\ Len(csvFiles[1]) = 3
    /\ Len(passed[1]) = 2

====
